---- MODULE Spec2Model ----
(***************************************************************************)
(* A model of the webcam attendance demo: attendence.py (face_recognition  *)
(* plus a CSV ledger) and attendencedeepface.py (RetinaFace, boxes only).  *)
(*                                                                         *)
(* Strings the program takes apart (file names, labels, CSV fields) are    *)
(* sequences of one-character strings.  Wall-clock readings are integers   *)
(* counting ticks of 1/TicksPerSecond second since StartSecond.  Embedding *)
(* distances are integers counting tenths.                                 *)
(***************************************************************************)
EXTENDS Integers, Sequences, FiniteSets, TLC

\* ------------------------------------------------------------------ bounds
MaxRefs == 2
MaxFaces == 2
MaxRows == 3
MaxTime == 3
MaxCalls == 3
TicksPerSecond == 2
StartSecond == 86399

\* --------------------------------------------------------------- constants
face_score == 5
tolerance == 6
EscKey == 27
KeyMask == 256
SecondsPerDay == 86400
SecondsPerHour == 3600
SecondsPerMinute == 60

None == 0

Times == 0..MaxTime

\* distances a face can have to one reference: under the score, on the score
\* (and within the tolerance), over the tolerance
Dists == {3, 4, 5, 7}

\* key codes cv.waitKey can return: no key, ESC, ESC with a modifier bit
Keys == {-1, 27, 283}

\* ----------------------------------------------------------------- strings
JpgExt == <<".", "j", "p", "g">>
Empty == <<>>
Unknown == <<"U", "n", "k", "n", "o", "w", "n">>
FaceText == <<"F", "a", "c", "e">>
HeaderRow == << <<"N", "a", "m", "e">>, <<"D", "a", "t", "e">>, <<"T", "i", "m", "e">> >>

AlJpg == <<"a", "l", ".", "j", "p", "g">>
BoPng == <<"b", "o", ".", "p", "n", "g">>
NfJpg == <<"n", "f", ".", "j", "p", "g">>
MeTxt == <<"m", "e", ".", "t", "x", "t">>

\* what the image directory can hold: file name, whether cv.imread decodes it,
\* and how many faces the encoder finds in it
DirEntries ==
    { [name |-> AlJpg, image |-> TRUE, faces |-> 1],
      [name |-> BoPng, image |-> TRUE, faces |-> 2],
      [name |-> NfJpg, image |-> TRUE, faces |-> 0],
      [name |-> MeTxt, image |-> FALSE, faces |-> 0] }

\* the listings os.listdir can return: any order, no name twice
Listings ==
    UNION { { s \in [1..n -> DirEntries] :
                \A i, j \in 1..n : i # j => s[i].name # s[j].name } : n \in 0..MaxRefs }

\* str.replace(old, new): leftmost non-overlapping occurrences, left to right
RECURSIVE Replace(_, _, _)
Replace(s, old, new) ==
    IF Len(s) < Len(old) THEN s
    ELSE IF SubSeq(s, 1, Len(old)) = old
         THEN new \o Replace(SubSeq(s, Len(old) + 1, Len(s)), old, new)
         ELSE <<Head(s)>> \o Replace(Tail(s), old, new)

\* ------------------------------------------------------------- the ledger
\* strftime("%Y-%m-%d") and strftime("%H:%M:%S") of a clock reading
SecondOf(now) == StartSecond + (now \div TicksPerSecond)
date_str(now) == << SecondOf(now) \div SecondsPerDay >>
time_str(now) ==
    LET s == SecondOf(now) % SecondsPerDay
    IN  << s \div SecondsPerHour,
           (s % SecondsPerHour) \div SecondsPerMinute,
           s % SecondsPerMinute >>

AbsentFile == [exists |-> FALSE, rows |-> <<>>]

\* lines 68-71: write the header only when there is no such file
initialize_csv_truncating(f) == [exists |-> TRUE, rows |-> <<HeaderRow>>]
initialize_csv(f) ==
    IF ~f.exists THEN [exists |-> TRUE, rows |-> <<HeaderRow>>] ELSE f

\* line 88: the debounce test
ShouldRecordStrict(records, detected_person, now) ==
    \/ detected_person \notin DOMAIN records
    \/ now - records[detected_person] > TicksPerSecond
ShouldRecord(records, detected_person, now) ==
    \/ detected_person \notin DOMAIN records
    \/ now - records[detected_person] >= TicksPerSecond

\* line 89: attendance_records[detected_person] = now
PutRecordAll(records, detected_person, now) ==
    [n \in DOMAIN records \cup {detected_person} |-> now]
PutRecord(records, detected_person, now) ==
    [n \in DOMAIN records \cup {detected_person} |->
        IF n = detected_person THEN now ELSE records[n]]

\* lines 85-98: the ledger [file, records] after one call that read `now`
record_attendance(L, detected_person, now) ==
    IF ShouldRecord(L.records, detected_person, now)
    THEN [file |-> [exists |-> TRUE,
                    rows |-> Append(L.file.rows,
                                    <<detected_person, date_str(now), time_str(now)>>)],
          records |-> PutRecord(L.records, detected_person, now)]
    ELSE L

\* ------------------------------------------------------------- matching
\* face_recognition.compare_faces at its default tolerance
compare_faces(dist) ==
    [i \in DOMAIN dist |-> dist[i] <= tolerance]

\* line 132: face_match.index(True) if True in face_match else None
best_match_index(face_match) ==
    IF \E i \in DOMAIN face_match : face_match[i]
    THEN CHOOSE i \in DOMAIN face_match :
            face_match[i] /\ \A j \in DOMAIN face_match : face_match[j] => i <= j
    ELSE None

\* line 137
Accepted(best, dist) ==
    best # None /\ dist[best] < face_score

\* line 138
DetectedPerson(lbls, best) ==
    Replace(lbls[best], JpgExt, Empty)

\* ------------------------------------------------------------------ state
VARIABLES
    variant,             \* which script runs: "attendence" or "deepface"
    dir,                 \* the listing of the image directory
    images,              \* main's images
    labels,              \* main's labels
    face_encodings,      \* main's face_encodings
    runs,                \* how often the loader and the encoder have run
    file,                \* attendance.csv: whether it exists, and its rows
    attendance_records,  \* the last-seen map
    pc,                  \* where main is
    capture,             \* the camera handle
    frame,               \* the frame of this iteration and the labels drawn on it
    remaining,           \* faces of the frame the for loop has still to visit
    face_distance,       \* process_frame's face_distance for the face being visited
    window,              \* the display window: "none", "shown" or "closed"
    key,                 \* the last value cv.waitKey returned
    logged,              \* whether this iteration printed 'No Face Detected'
    calls                \* ledger harness: the calls made so far

vars == <<variant, dir, images, labels, face_encodings, runs, file,
          attendance_records, pc, capture, frame, remaining, face_distance,
          window, key, logged, calls>>

refs == <<images, labels, face_encodings>>
ledger == <<file, attendance_records>>
loopLocals == <<frame, remaining, face_distance, logged>>

NoRecords == [n \in {} |-> 0]
NoFrame == [valid |-> FALSE, drawn |-> <<>>]

\* a row a previous run left in the file
OldRow == << <<"a", "l">>, <<0>>, <<9, 0, 0>> >>
InitialFiles ==
    { AbsentFile,
      [exists |-> TRUE, rows |-> <<HeaderRow>>],
      [exists |-> TRUE, rows |-> <<HeaderRow, OldRow>>] }

Init ==
    /\ variant \in {"attendence", "deepface"}
    /\ dir \in (IF variant = "attendence" THEN Listings ELSE {<<>>})
    /\ images = <<>>
    /\ labels = <<>>
    /\ face_encodings = <<>>
    /\ runs = [load |-> 0, encode |-> 0]
    /\ file \in (IF variant = "attendence"
                 THEN {AbsentFile, [exists |-> TRUE, rows |-> <<HeaderRow, OldRow>>]}
                 ELSE {AbsentFile})
    /\ attendance_records = NoRecords
    /\ pc = IF variant = "attendence" THEN "load" ELSE "open"
    /\ capture = "none"
    /\ frame = NoFrame
    /\ remaining = 0
    /\ face_distance = <<>>
    /\ window = "none"
    /\ key = -1
    /\ logged = FALSE
    /\ calls = <<>>

\* ---------------------------------------------------------------- startup
\* lines 22-37: every file is read and converted; cv.cvtColor raises on a
\* file cv.imread could not decode, and main ends there
load_images_and_labels ==
    /\ pc = "load"
    /\ runs' = [runs EXCEPT !.load = @ + 1]
    /\ IF \A i \in DOMAIN dir : dir[i].image
       THEN /\ images' = [i \in DOMAIN dir |-> [file |-> dir[i].name, faces |-> dir[i].faces]]
            /\ labels' = [i \in DOMAIN dir |-> dir[i].name]
            /\ pc' = "encode"
       ELSE /\ UNCHANGED <<images, labels>>
            /\ pc' = "aborted"
    /\ UNCHANGED <<variant, dir, face_encodings, file, attendance_records, capture,
                   frame, remaining, face_distance, window, key, logged, calls>>

\* lines 52-57: the first encoding of every image, in order; [0] raises
\* IndexError on an image without a face, and main ends there
EncodeResultSkipping(imgs) ==
    LET F[i \in 0..Len(imgs)] ==
            IF i = 0 THEN <<>>
            ELSE IF imgs[i].faces = 0 THEN F[i - 1]
                 ELSE Append(F[i - 1], [file |-> imgs[i].file, face |-> 1])
    IN  [raised |-> FALSE, encodings |-> F[Len(imgs)]]
EncodeResult(imgs) ==
    [raised |-> \E i \in DOMAIN imgs : imgs[i].faces = 0,
     encodings |-> [i \in DOMAIN imgs |-> [file |-> imgs[i].file, face |-> 1]]]

encode_faces ==
    /\ pc = "encode"
    /\ runs' = [runs EXCEPT !.encode = @ + 1]
    /\ IF EncodeResult(images).raised
       THEN /\ UNCHANGED face_encodings
            /\ pc' = "aborted"
       ELSE /\ face_encodings' = EncodeResult(images).encodings
            /\ pc' = "init_csv"
    /\ UNCHANGED <<variant, dir, images, labels, file, attendance_records, capture,
                   frame, remaining, face_distance, window, key, logged, calls>>

\* line 170
MainInitializeCsv ==
    /\ pc = "init_csv"
    /\ file' = initialize_csv(file)
    /\ pc' = "open"
    /\ UNCHANGED <<variant, dir, refs, runs, attendance_records, capture,
                   loopLocals, window, key, calls>>

\* line 173: cv.VideoCapture(1) never raises; a camera that did not open
\* fails every read
OpenCamera ==
    /\ pc = "open"
    /\ capture' \in {"opened", "failed"}
    /\ pc' = "read"
    /\ UNCHANGED <<variant, dir, refs, runs, ledger, loopLocals, window, key, calls>>

\* --------------------------------------------------------- the capture loop
\* lines 177-179: one read per iteration; a failed read goes straight to the
\* key check
ReadFailedBreaks ==
    /\ frame' = NoFrame
    /\ pc' = "release"
ReadFailed ==
    /\ frame' = NoFrame
    /\ pc' = "waitKey"

CaptureRead ==
    /\ pc = "read"
    /\ \E result \in (IF capture = "opened" THEN BOOLEAN ELSE {FALSE}) :
          IF result
          THEN /\ frame' = [valid |-> TRUE, drawn |-> <<>>]
               /\ pc' = IF variant = "attendence" THEN "detect" ELSE "df_process"
          ELSE ReadFailed
    /\ logged' = FALSE
    /\ UNCHANGED <<variant, dir, refs, runs, ledger, capture, remaining,
                   face_distance, window, key, calls>>

\* lines 123-126 and 148-149: the detector returns the faces of the frame, or
\* raises IndexError, which process_frame catches: the frame goes back as it is
DetectorRaisedPropagates == "aborted"
DetectorRaised == "show"

DetectFaces ==
    /\ pc = "detect"
    /\ \/ /\ remaining' \in 0..MaxFaces
          /\ pc' = "faces"
          /\ logged' = FALSE
       \/ /\ remaining' = 0
          /\ pc' = DetectorRaised
          /\ logged' = TRUE
    /\ UNCHANGED <<variant, dir, refs, runs, ledger, capture, frame,
                   face_distance, window, key, calls>>

\* lines 130-141: what one pass of the for loop makes of a face at distances
\* `dist` from the references, with `now` the clock reading record_attendance
\* takes
FaceOutcomeRecordsUnknown(L, lbls, dist, now) ==
    LET best == best_match_index(compare_faces(dist))
    IN  IF Accepted(best, dist)
        THEN [ledger |-> record_attendance(L, DetectedPerson(lbls, best), now),
              detected_person |-> DetectedPerson(lbls, best)]
        ELSE [ledger |-> record_attendance(L, Unknown, now), detected_person |-> Unknown]
FaceOutcome(L, lbls, dist, now) ==
    LET best == best_match_index(compare_faces(dist))
    IN  IF Accepted(best, dist)
        THEN [ledger |-> record_attendance(L, DetectedPerson(lbls, best), now),
              detected_person |-> DetectedPerson(lbls, best)]
        ELSE [ledger |-> L, detected_person |-> Unknown]

\* datetime.now() is read only inside record_attendance (line 85)
ClockReadings(dist) ==
    IF Accepted(best_match_index(compare_faces(dist)), dist) THEN Times ELSE {0}

\* lines 130-132: the distances of the next face to the references
CompareFace ==
    /\ pc = "faces"
    /\ remaining > 0
    /\ face_distance' \in [DOMAIN face_encodings -> Dists]
    /\ pc' = "decide"
    /\ UNCHANGED <<variant, dir, refs, runs, ledger, capture, frame, remaining,
                   window, key, logged, calls>>

\* lines 134-146: the label of that face, recorded if accepted, drawn on the
\* frame
DecideFace ==
    /\ pc = "decide"
    /\ \E now \in ClockReadings(face_distance) :
          LET out == FaceOutcome([file |-> file, records |-> attendance_records],
                                 labels, face_distance, now)
          IN  /\ Len(out.ledger.file.rows) <= MaxRows
              /\ file' = out.ledger.file
              /\ attendance_records' = out.ledger.records
              /\ frame' = [frame EXCEPT !.drawn = Append(@, out.detected_person)]
    /\ face_distance' = <<>>
    /\ remaining' = remaining - 1
    /\ pc' = "faces"
    /\ UNCHANGED <<variant, dir, refs, runs, capture, window, key, logged, calls>>

\* line 151
ProcessReturn ==
    /\ pc = "faces"
    /\ remaining = 0
    /\ pc' = "show"
    /\ UNCHANGED <<variant, dir, refs, runs, ledger, capture, loopLocals,
                   window, key, calls>>

\* attendencedeepface.py lines 17-37: a box and the text "Face" on every face
process_frame_retinaface ==
    /\ pc = "df_process"
    /\ \E n \in 0..MaxFaces :
          frame' = [frame EXCEPT !.drawn = [i \in 1..n |-> FaceText]]
    /\ pc' = "show"
    /\ UNCHANGED <<variant, dir, refs, runs, ledger, capture, remaining,
                   face_distance, window, key, logged, calls>>

\* line 182
ImShow ==
    /\ pc = "show"
    /\ window' = "shown"
    /\ pc' = "waitKey"
    /\ UNCHANGED <<variant, dir, refs, runs, ledger, capture, loopLocals, key, calls>>

\* line 184: cv.waitKey(1) & 0xFF == 27
IsEscUnmasked(k) == k = EscKey
IsEsc(k) == (k % KeyMask) = EscKey

WaitKey ==
    /\ pc = "waitKey"
    /\ key' \in Keys
    /\ pc' = IF IsEsc(key') THEN "release" ELSE "read"
    /\ UNCHANGED <<variant, dir, refs, runs, ledger, capture, loopLocals, window, calls>>

\* line 187
Release ==
    /\ pc = "release"
    /\ capture' = "released"
    /\ pc' = "destroy"
    /\ UNCHANGED <<variant, dir, refs, runs, ledger, loopLocals, window, key, calls>>

\* line 188
DestroyAllWindows ==
    /\ pc = "destroy"
    /\ window' = "closed"
    /\ pc' = "done"
    /\ UNCHANGED <<variant, dir, refs, runs, ledger, capture, loopLocals, key, calls>>

Next ==
    \/ load_images_and_labels
    \/ encode_faces
    \/ MainInitializeCsv
    \/ OpenCamera
    \/ CaptureRead
    \/ DetectFaces
    \/ CompareFace
    \/ DecideFace
    \/ ProcessReturn
    \/ process_frame_retinaface
    \/ ImShow
    \/ WaitKey
    \/ Release
    \/ DestroyAllWindows

Spec == Init /\ [][Next]_vars

\* -------------------------------------------------------- the ledger alone
\* initialize_csv and record_attendance called in any order, as a caller of
\* the two functions may; `calls` keeps what was called and whether the file
\* grew
PersonNames == { Replace(AlJpg, JpgExt, Empty), Replace(BoPng, JpgExt, Empty) }

InitLedger ==
    /\ variant = "attendence"
    /\ dir = <<>>
    /\ images = <<>>
    /\ labels = <<>>
    /\ face_encodings = <<>>
    /\ runs = [load |-> 0, encode |-> 0]
    /\ file \in InitialFiles
    /\ attendance_records = NoRecords
    /\ pc = "ledger"
    /\ capture = "none"
    /\ frame = NoFrame
    /\ remaining = 0
    /\ face_distance = <<>>
    /\ window = "none"
    /\ key = -1
    /\ logged = FALSE
    /\ calls = <<>>

CallInitializeCsv ==
    /\ pc = "ledger"
    /\ Len(calls) < MaxCalls
    /\ file' = initialize_csv(file)
    /\ calls' = Append(calls, [op |-> "initialize", name |-> <<>>, now |-> 0,
                               appended |-> FALSE])
    /\ UNCHANGED <<variant, dir, refs, runs, attendance_records, pc, capture,
                   loopLocals, window, key>>

CallRecordAttendance ==
    /\ pc = "ledger"
    /\ Len(calls) < MaxCalls
    /\ \E detected_person \in PersonNames, now \in Times :
          LET L == record_attendance([file |-> file, records |-> attendance_records],
                                    detected_person, now)
          IN  /\ file' = L.file
              /\ attendance_records' = L.records
              /\ calls' = Append(calls, [op |-> "record", name |-> detected_person,
                                         now |-> now,
                                         appended |-> Len(L.file.rows) > Len(file.rows)])
    /\ UNCHANGED <<variant, dir, refs, runs, pc, capture, loopLocals, window, key>>

NextLedger ==
    \/ CallInitializeCsv
    \/ CallRecordAttendance

SpecLedger == InitLedger /\ [][NextLedger]_vars

\* ================================================================== claims
\* helpers of the claims about the ledger
LastCall == calls'[Len(calls')]
IsCall(op) == Len(calls') = Len(calls) + 1 /\ LastCall.op = op
RowOf(c) == <<c.name, date_str(c.now), time_str(c.now)>>
RecordCalls(name) ==
    { i \in DOMAIN calls : calls[i].op = "record" /\ calls[i].name = name }
AppendedCalls == { i \in DOMAIN calls : calls[i].appended }
\* the instant a row's date and time fields parse back to, in seconds
RowInstant(row) ==
    row[2][1] * SecondsPerDay + row[3][1] * SecondsPerHour
        + row[3][2] * SecondsPerMinute + row[3][3]
\* the rows appended in this run are the last rows of the file
RunRow(k) == file.rows[Len(file.rows) - Cardinality(AppendedCalls) + k]

\* C1, every call: a record call appends its row exactly when the name is not
\* in the last-seen map or the reading minus the map's timestamp is at least
\* one second; otherwise the file stays as it is
C1_Step ==
    IsCall("record") =>
        LET c == LastCall
            due == \/ c.name \notin DOMAIN attendance_records
                   \/ c.now - attendance_records[c.name] >= TicksPerSecond
        IN  /\ due => file'.rows = Append(file.rows, RowOf(c))
            /\ ~due => file' = file

\* C1, two calls: of two successive calls for one name, the first of which
\* was recorded, the second appends a row exactly when its reading is at least
\* one second after the first's; so the two append one row when less than a
\* second apart and two rows otherwise
C1_Pairs ==
    \A name \in PersonNames :
        \A i, j \in RecordCalls(name) :
            (/\ i < j
             /\ calls[i].appended
             /\ \A k \in RecordCalls(name) : ~(i < k /\ k < j))
            => (calls[j].appended <=> calls[j].now - calls[i].now >= TicksPerSecond)

\* C1: over any sequence of calls, record_attendance appends a row exactly
\* when the name is not in the last-seen map or the reading is at least one
\* second after the map's timestamp (C1_Step); so of two successive calls for
\* a name, the first recorded, readings less than a second apart give one row
\* and readings at least a second apart give two (C1_Pairs)
C1_Debounce == [][C1_Step]_vars /\ []C1_Pairs

\* C1 witness: one name, a first call recorded, a second call half a second
\* later suppressed, a third call a second after the first recorded
C1_Witness ==
    /\ Len(calls) = 3
    /\ \A i \in 1..3 : calls[i].op = "record" /\ calls[i].name = calls[1].name
    /\ calls[2].now - calls[1].now = 1
    /\ calls[3].now - calls[1].now = TicksPerSecond
    /\ calls[1].appended /\ ~calls[2].appended /\ calls[3].appended

\* C3: initialize_csv creates a missing file with exactly the header row and
\* leaves an existing file as it is, whatever it holds; and no call ever
\* removes or alters a row the file already has
C3_InitializeIdempotent ==
    [][ /\ IsCall("initialize") =>
            /\ file.exists => file' = file
            /\ ~file.exists => file' = [exists |-> TRUE, rows |-> <<HeaderRow>>]
            /\ attendance_records' = attendance_records
        /\ Len(file'.rows) >= Len(file.rows)
        /\ SubSeq(file'.rows, 1, Len(file.rows)) = file.rows ]_vars

\* C3 witness: initialize called twice after a recorded call, on a file that
\* holds the header, an older row and the new row
C3_Witness ==
    /\ Len(calls) = 3
    /\ calls[1].op = "record" /\ calls[1].appended
    /\ calls[2].op = "initialize" /\ calls[3].op = "initialize"
    /\ Len(file.rows) = 3
    /\ file.rows[1] = HeaderRow

\* C10, states: the map's keys are the names with a row appended in this
\* run; a name's timestamp is the reading of its latest appended row; the rows
\* of the run are in the file, in order, as name, date, time of their readings;
\* the rows of one name are at least one second apart, in increasing order
C10_State ==
    /\ DOMAIN attendance_records = { calls[i].name : i \in AppendedCalls }
    /\ \A name \in DOMAIN attendance_records :
          \E i \in AppendedCalls :
              /\ calls[i].name = name
              /\ \A j \in AppendedCalls : calls[j].name = name => j <= i
              /\ attendance_records[name] = calls[i].now
    /\ \A i \in AppendedCalls :
          RunRow(Cardinality({ j \in AppendedCalls : j <= i })) = RowOf(calls[i])
    /\ \A i, j \in AppendedCalls :
          (i < j /\ calls[i].name = calls[j].name) =>
              /\ calls[j].now - calls[i].now >= TicksPerSecond
              /\ RowInstant(RowOf(calls[j])) - RowInstant(RowOf(calls[i])) >= 1

\* C10, steps: a suppressed call changes neither the map nor the file; a call
\* never touches the entry of another name
C10_Step ==
    IsCall("record") =>
        /\ ~LastCall.appended =>
              /\ file' = file
              /\ attendance_records' = attendance_records
        /\ \A name \in PersonNames \ {LastCall.name} :
              /\ (name \in DOMAIN attendance_records') <=> (name \in DOMAIN attendance_records)
              /\ name \in DOMAIN attendance_records =>
                    attendance_records'[name] = attendance_records[name]

\* C10: under any clock, the keys of the last-seen map are the names recorded
\* in this run, each with the reading of its latest row, and the rows of one
\* name lie at least a second apart (C10_State); a suppressed call changes
\* nothing and no call touches another name's entry (C10_Step)
C10_LastSeenMap == []C10_State /\ [][C10_Step]_vars

\* C10 witness: the clock jumps back between two calls for a name already
\* recorded, the call is suppressed, and another name is recorded meanwhile
C10_Witness ==
    /\ Len(calls) = 3
    /\ calls[1].op = "record" /\ calls[1].appended
    /\ calls[2].op = "record" /\ calls[2].appended /\ calls[2].name # calls[1].name
    /\ calls[3].op = "record" /\ calls[3].name = calls[1].name
    /\ calls[3].now < calls[1].now
    /\ ~calls[3].appended
    /\ attendance_records[calls[1].name] = calls[1].now

\* helpers of the claims about main
LoopPcs == {"read", "detect", "faces", "decide", "df_process", "show", "waitKey"}
StoppedPcs == {"release", "destroy", "done"}
LastDrawn(f) == f.drawn[Len(f.drawn)]
MinOf(S) == CHOOSE i \in S : \A j \in S : i <= j
MaxOf(S) == CHOOSE i \in S : \A j \in S : j <= i
\* os.path.splitext(name)[0]: the name up to its last dot, unless that dot
\* leads the name
Stem(name) ==
    LET dots == { i \in 2..Len(name) :
                    name[i] = "." /\ \E j \in 1..(i - 1) : name[j] # "." }
    IN  IF dots = {} THEN name ELSE SubSeq(name, 1, MaxOf(dots) - 1)

\* C2: the label drawn for a face is the label of a reference nearest to it
\* when that reference is flagged as a match and nearer than face_score, and
\* "Unknown" otherwise
C2_MatchingRule ==
    [][ pc = "decide" =>
        LET d == face_distance
            nearest == { i \in DOMAIN d : \A j \in DOMAIN d : d[i] <= d[j] }
            good == { i \in nearest : compare_faces(d)[i] /\ d[i] < face_score }
        IN  IF good # {}
            THEN \E i \in good : LastDrawn(frame') = DetectedPerson(labels, i)
            ELSE LastDrawn(frame') = Unknown ]_vars

\* C4, every face: a face whose first flagged reference is missing or not
\* nearer than face_score is labelled "Unknown", and the file and the map
\* stay as they are
C4_Step ==
    pc = "decide" =>
        LET d == face_distance
            flagged == { i \in DOMAIN d : d[i] <= tolerance }
            rejected == flagged = {} \/ d[MinOf(flagged)] >= face_score
        IN  rejected =>
                /\ LastDrawn(frame') = Unknown
                /\ file' = file
                /\ attendance_records' = attendance_records

\* C4, no references: every label drawn is "Unknown", the map stays empty and
\* the loop never changes the file
C4_NoReferences ==
    (variant = "attendence" /\ pc \in LoopPcs /\ face_encodings = <<>>) =>
        /\ \A k \in DOMAIN frame.drawn : frame.drawn[k] = Unknown
        /\ attendance_records = NoRecords
        /\ file' = file

\* C4: a face that is not accepted is labelled "Unknown" and changes neither
\* the file nor the map (C4_Step); with no references every face is "Unknown"
\* and no row is ever appended (C4_NoReferences)
C4_UnknownNotRecorded == [][C4_Step /\ C4_NoReferences]_vars

\* C4 witness: no references, a frame with two faces, both drawn "Unknown",
\* shown, and nothing recorded
C4_Witness ==
    /\ pc = "waitKey"
    /\ face_encodings = <<>>
    /\ frame.drawn = <<Unknown, Unknown>>
    /\ window = "shown"
    /\ attendance_records = NoRecords

\* C5: the name drawn and recorded for an accepted face is the matched
\* reference's file name without its extension
C5_NameIsFileStem ==
    [][ pc = "decide" =>
        LET best == best_match_index(compare_faces(face_distance))
        IN  Accepted(best, face_distance) =>
                /\ LastDrawn(frame') = Stem(labels[best])
                /\ Stem(labels[best]) \in DOMAIN attendance_records' ]_vars

\* C6: when the detector raises, process_frame logs and hands the frame back
\* with nothing drawn on it and the ledger as it was, the frame is shown, and
\* the loop goes on to the key check and, unless ESC is pressed, the next read;
\* main is never ended by it
C6_DetectorFailureSkipsFrame ==
    /\ [][ /\ (pc = "detect" /\ pc' # "faces") =>
                /\ pc' = "show"
                /\ logged'
                /\ frame' = frame
                /\ frame.drawn = <<>>
                /\ file' = file
                /\ attendance_records' = attendance_records
           /\ (logged /\ pc = "show") => pc' = "waitKey"
           /\ (logged /\ pc = "waitKey" /\ (key' % KeyMask) # EscKey) => pc' = "read" ]_vars
    /\ [](logged => (pc \in {"show", "waitKey", "read"} \cup StoppedPcs))
    /\ [](pc = "aborted" => capture = "none")

\* C6 witness: after a frame on which the detector raised, the loop is at the
\* next read
C6_Witness ==
    /\ logged
    /\ pc = "read"
    /\ window = "shown"
    /\ frame = [valid |-> TRUE, drawn |-> <<>>]

\* C7: the loop is left only at the key check and only on ESC, ESC there
\* always leaves it, every iteration ends in the key check, and after the
\* loop no frame is read and no row appended, the camera is released and the
\* window closed
C7_EscStopsLoop ==
    /\ [][ /\ (pc \in LoopPcs /\ pc' \notin LoopPcs) =>
                (pc = "waitKey" /\ (key' % KeyMask) = EscKey /\ pc' = "release")
           /\ (pc = "waitKey" /\ (key' % KeyMask) = EscKey) => pc' = "release"
           /\ (pc = "read" /\ ~frame'.valid) => pc' = "waitKey"
           /\ (pc \in LoopPcs /\ pc' = "read") => pc = "waitKey"
           /\ pc \in StoppedPcs =>
                /\ pc' \in StoppedPcs
                /\ frame' = frame
                /\ file' = file
                /\ attendance_records' = attendance_records ]_vars
    /\ [](pc \in {"destroy", "done"} => capture = "released")
    /\ [](pc = "done" => window = "closed")

\* C7 witness: ESC with a modifier bit ended a run that had recorded a row
C7_Witness ==
    /\ pc = "done"
    /\ key = 283
    /\ capture = "released"
    /\ window = "closed"
    /\ attendance_records # NoRecords

\* C8: a failed read goes to the key check with the frame processor not
\* called, the window, the file and the map as they were; a frame is read only
\* at the start of an iteration, when the frame before it has been processed
\* to its last face
C8_FailedReadSkips ==
    /\ [][ /\ (pc = "read" /\ ~frame'.valid) =>
                /\ pc' = "waitKey"
                /\ window' = window
                /\ file' = file
                /\ attendance_records' = attendance_records
           /\ frame' # frame =>
                (pc = "read" \/ (pc \in {"decide", "df_process"} /\ frame'.valid))
           /\ pc' = "read" => (pc \in {"open", "waitKey"} /\ remaining = 0) ]_vars
    /\ [](pc \in {"read", "show", "waitKey"} => remaining = 0)

\* C8 witness: a read failed after an earlier frame had been shown and a row
\* recorded
C8_Witness ==
    /\ pc = "waitKey"
    /\ ~frame.valid
    /\ capture = "opened"
    /\ window = "shown"
    /\ attendance_records # NoRecords

\* C9: the loader and the encoder run once each, before the camera is opened;
\* from then on labels and encodings are as long as each other, every
\* encoding is that of the image its label names, in the listing's order, and
\* neither list changes
C9_ReferenceSetFixed ==
    /\ [](runs.load <= 1 /\ runs.encode <= 1)
    /\ []((variant = "attendence" /\ (capture # "none" \/ frame.valid \/ pc \in LoopPcs))
            => runs = [load |-> 1, encode |-> 1])
    /\ []((variant = "attendence" /\ pc \notin {"load", "encode", "aborted"}) =>
            /\ Len(labels) = Len(dir)
            /\ Len(face_encodings) = Len(labels)
            /\ \A i \in DOMAIN labels :
                  /\ labels[i] = dir[i].name
                  /\ face_encodings[i].file = labels[i]
                  /\ face_encodings[i].face = 1)
    /\ [][pc \notin {"load", "encode"} =>
            (labels' = labels /\ face_encodings' = face_encodings /\ runs' = runs)]_vars

\* C9 witness: two references, and a face matched to the second
C9_Witness ==
    /\ pc = "faces"
    /\ Len(labels) = 2
    /\ frame.drawn # <<>>
    /\ LastDrawn(frame) = DetectedPerson(labels, 2)

====
